---- MODULE Spec2Model ----
(***************************************************************************)
(* State-machine model of the image generation service:                    *)
(*   - ValidationService (rate limiter, concurrency counter, input checks) *)
(*   - the POST /api/generate handler of app.js                            *)
(*   - GeminiService.generateImage (strategy x model retry loop)           *)
(*   - PromptGuard (issue detector and prompt transformation)              *)
(* Node.js runs every handler on one thread: a handler runs without       *)
(* interruption up to its next await on I/O.  Each action below is one     *)
(* such uninterrupted run.                                                 *)
(***************************************************************************)
EXTENDS Integers, Sequences, FiniteSets, TLC

VARIABLES
    now,                 \* Date.now(), in milliseconds
    rateLimits,          \* ValidationService.rateLimits : Map userId -> {requests, windowStart}
    concurrentRequests,  \* ValidationService.concurrentRequests : Map userId -> count
    inflight,            \* requests suspended in `await geminiService.generateImage`
    last,                \* history: the request the latest step terminated, NoRequest if none
    acceptedAt,          \* history: per identity, the times at which validateRateLimit accepted
    arrivals,            \* history: number of requests received so far
    ticks,               \* history: number of times the clock advanced
    draft                \* a prompt text under repeated ruleBasedTransformation

vars ==
    <<now, rateLimits, concurrentRequests, inflight, last, acceptedAt, arrivals, ticks, draft>>

(***************************************************************************)
(* Bounds of the model.                                                    *)
(***************************************************************************)
MaxInflight == 4        \* requests that may be suspended in generation at once
MaxArrivals == 5        \* requests received in one behaviour of Spec
MaxArrivalsRate == 24   \* requests received in one behaviour of SpecRate
MaxTicks == 2           \* clock advances in one behaviour of SpecRate
MaxArrivalsGen == 1     \* requests received in one behaviour of SpecGen
MaxPasses == 2          \* passes of ruleBasedTransformation over one text in SpecRule

(***************************************************************************)
(* Program constants.                                                      *)
(***************************************************************************)
MAX_REQUESTS_PER_HOUR == 21
RATE_LIMIT_WINDOW == 3600000
MAX_CONCURRENT_GENERATIONS == 3
MsPerMinute == 60000
MinLength == 3
MaxLength == 1000
AbstractLength == 50

imageModels == <<"imagegeneration@006", "imagegeneration@005", "imagegeneration@002">>

apiErrorStrings ==
    [contentPolicy |-> <<"content policy", "safety", "blocked", "58061214", "responsible ai">>,
     quota |-> <<"quota", "rate limit", "limit exceeded">>]

blockedTerms ==
    <<"hack", "exploit", "vulnerability", "nude", "naked", "pornography",
      "explicit", "violence", "gore", "hate", "harassment", "terrorism">>

qualityEnhancers ==
    <<"high quality photograph", "natural lighting", "authentic cultural representation",
      "dignified portrayal", "respectful documentation", "human warmth and connection">>

(***************************************************************************)
(* JavaScript string primitives.                                           *)
(***************************************************************************)
Range(f) == {f[i] : i \in DOMAIN f}

CharAt(s, i) == SubSeq(s, i, i)

\* String.prototype.includes (case-sensitive)
Includes(s, sub) ==
    \E i \in 1..(Len(s) - Len(sub) + 1) : SubSeq(s, i, i + Len(sub) - 1) = sub

UpperLetters == "ABCDEFGHIJKLMNOPQRSTUVWXYZ"
LowerLetters == "abcdefghijklmnopqrstuvwxyz"
Digits == "0123456789"

UpperSet == {CharAt(UpperLetters, i) : i \in 1..26}
LowerOf == [c \in UpperSet |->
               CharAt(LowerLetters, CHOOSE i \in 1..26 : CharAt(UpperLetters, i) = c)]

LowerChar(c) == IF c \in UpperSet THEN LowerOf[c] ELSE c

RECURSIVE ToLowerCase(_)
ToLowerCase(s) ==
    IF Len(s) = 0 THEN ""
    ELSE IF Len(s) = 1 THEN LowerChar(s)
    ELSE LET h == Len(s) \div 2
         IN  ToLowerCase(SubSeq(s, 1, h)) \o ToLowerCase(SubSeq(s, h + 1, Len(s)))

\* \w of a JavaScript regular expression
WordChars ==
    UpperSet \cup {CharAt(LowerLetters, i) : i \in 1..26}
             \cup {CharAt(Digits, i) : i \in 1..10} \cup {"_"}

IsWordChar(c) == c \in WordChars

\* \s of a JavaScript regular expression (the characters the model's inputs use)
IsSpace(c) == c = " "

\* \b at the gap before position i (1 <= i <= Len(s) + 1)
Boundary(s, i) ==
    LET before == i > 1 /\ IsWordChar(CharAt(s, i - 1))
        after  == i <= Len(s) /\ IsWordChar(CharAt(s, i))
    IN  before # after

\* the literal w (lower case) matches s at position i, ignoring case
MatchesAt(s, i, w) ==
    /\ i + Len(w) - 1 <= Len(s)
    /\ ToLowerCase(SubSeq(s, i, i + Len(w) - 1)) = w

\* \b(?:w1|w2|...)\b matches s at position i with alternative w
WordAt(s, i, w) ==
    /\ Boundary(s, i)
    /\ MatchesAt(s, i, w)
    /\ Boundary(s, i + Len(w))

\* /\b(?:w1|...)\b/i.test(s)
HasWord(s, words) ==
    \E i \in 1..Len(s) : \E k \in DOMAIN words : WordAt(s, i, words[k])

\* /\b(?:a1|...)\b.*\b(?:b1|...)\b/i.test(s)  (no line terminators in the inputs)
HasWordThenWord(s, as, bs) ==
    \E i \in 1..Len(s) : \E k \in DOMAIN as :
        /\ WordAt(s, i, as[k])
        /\ \E j \in (i + Len(as[k]))..Len(s) : \E m \in DOMAIN bs : WordAt(s, j, bs[m])

\* s.replace(/\b(?:w1|...)\b/gi, repl), scanning from position i: the leftmost
\* match at or after i is replaced by its first matching alternative's length
RECURSIVE ReplaceFrom(_, _, _, _)
ReplaceFrom(s, i, words, repl) ==
    LET starts == {j \in i..Len(s) : \E k \in DOMAIN words : WordAt(s, j, words[k])}
    IN  IF starts = {} THEN SubSeq(s, i, Len(s))
        ELSE LET j == CHOOSE j \in starts : \A m \in starts : j <= m
                 k == CHOOSE k \in DOMAIN words :
                          /\ WordAt(s, j, words[k])
                          /\ \A m \in 1..(k - 1) : ~WordAt(s, j, words[m])
             IN  SubSeq(s, i, j - 1) \o repl
                     \o ReplaceFrom(s, j + Len(words[k]), words, repl)

ReplaceWords(s, words, repl) == ReplaceFrom(s, 1, words, repl)

\* String.prototype.substring(0, n)
Substring0(s, n) == SubSeq(s, 1, IF n < Len(s) THEN n ELSE Len(s))

RECURSIVE TrimStart(_)
TrimStart(s) ==
    IF Len(s) > 0 /\ IsSpace(CharAt(s, 1)) THEN TrimStart(SubSeq(s, 2, Len(s))) ELSE s

RECURSIVE TrimEnd(_)
TrimEnd(s) ==
    IF Len(s) > 0 /\ IsSpace(CharAt(s, Len(s))) THEN TrimEnd(SubSeq(s, 1, Len(s) - 1)) ELSE s

\* String.prototype.trim
Trim(s) == TrimEnd(TrimStart(s))

IsQuote(c) == c = "'" \/ c = "\""

\* candidate.replace(/^["']|["']$/g, '')
StripQuotes(s) ==
    LET a == IF Len(s) > 0 /\ IsQuote(CharAt(s, 1)) THEN SubSeq(s, 2, Len(s)) ELSE s
    IN  IF Len(a) > 0 /\ IsQuote(CharAt(a, Len(a))) THEN SubSeq(a, 1, Len(a) - 1) ELSE a

\* Math.ceil(a / b) for b > 0
CeilDiv(a, b) == IF a % b = 0 THEN a \div b ELSE (a \div b) + 1

(***************************************************************************)
(* Values of req.body.prompt and req.body.options.                         *)
(***************************************************************************)
Str(s) == [type |-> "string", text |-> s, num |-> 0]
Num(n) == [type |-> "number", text |-> "", num |-> n]
Undefined == [type |-> "undefined", text |-> "", num |-> 0]

\* !v
Falsy(v) ==
    \/ v.type = "undefined"
    \/ v.type = "string" /\ v.text = ""
    \/ v.type = "number" /\ v.num = 0

\* new Map(): get(k) || dflt, set(k, v); MapSetIfAbsent is a set that keeps the
\* value of a key the map already has
MapGet(m, k, dflt) == IF k \in DOMAIN m THEN m[k] ELSE dflt
MapSetIfAbsent(m, k, v) == [x \in DOMAIN m \cup {k} |-> IF x \in DOMAIN m THEN m[x] ELSE v]
MapSet(m, k, v) == [x \in DOMAIN m \cup {k} |-> IF x = k THEN v ELSE m[x]]
EmptyMap == [x \in {} |-> 0]

(***************************************************************************)
(* Inputs and answers of the outside world.                                *)
(***************************************************************************)
\* What the outside world answers to one generateWithModel call:
\*   authError  - message of the failure of auth.getClient/getAccessToken in
\*                testAuth, "" when none
\*   tokenError - message of the failure of getAccessToken after testAuth
\*                passed, "" when none
\*   fetchError - message of the failure of fetch, "" when none
\*   status, text - HTTP status and body text of an error response
\*   predictions - shape of the parsed body of an OK response: "image" (the
\*                first prediction has image bytes), "empty" (an empty list),
\*                "no_bytes" (a first prediction without image bytes),
\*                "absent" (no predictions field), "unparsable" (not JSON)
Response(authError, fetchError, status, text, predictions) ==
    [authError |-> authError, tokenError |-> "", fetchError |-> fetchError,
     status |-> status, text |-> text, predictions |-> predictions]

ClientIp == "203.0.113.7"
NoOptions == [format |-> "", size |-> ""]

X10 == "xxxxxxxxxx"
X100 == X10 \o X10 \o X10 \o X10 \o X10 \o X10 \o X10 \o X10 \o X10 \o X10
X500 == X100 \o X100 \o X100 \o X100 \o X100

BicyclePrompt == "a red bicycle in a park"
BirthdayPrompt == "5 year old child eating birthday cake"
HighRiskPrompt == "kids in inappropriate costumes"
LongestPrompt == "a park " \o SubSeq(X500, 1, 493) \o X500
TooLongPrompt == LongestPrompt \o "x"

RespImage == Response("", "", 200, "", "image")
RespPolicy == Response("", "", 400, "Image generation blocked by safety filters", "")
RespQuota == Response("", "", 429, "Quota exceeded for online prediction requests", "")
RespAuth == Response("Could not load the default credentials", "", 0, "", "")
RespToken == [Response("", "", 0, "", "") EXCEPT !.tokenError = "socket hang up"]
RespNetwork == Response("", "network timeout at: https://aiplatform.googleapis.com", 0, "", "")
RespUnavailable == Response("", "", 503, "The service is currently unavailable", "")
RespUnparsable == Response("", "", 200, "", "unparsable")
RespEmpty == Response("", "", 200, "", "empty")
RespNoBytes == Response("", "", 200, "", "no_bytes")
RespNoPredictions == Response("", "", 200, "", "absent")

\* the prompt texts and the upstream answers the specifications below draw from
PromptTexts ==
    {"", "ab", BicyclePrompt, BirthdayPrompt, HighRiskPrompt, LongestPrompt, TooLongPrompt}
Responses ==
    {RespImage, RespPolicy, RespQuota, RespAuth, RespToken, RespNetwork, RespUnavailable,
     RespUnparsable, RespEmpty, RespNoBytes, RespNoPredictions}

\* a text no transformation has been applied to
NoDraft(text) == [text |-> text, previous |-> text, passes |-> 0]

\* table[x] when the table has x, and the value computed directly otherwise:
\* the tables below hold the values of pure functions on the inputs above, so
\* that they are computed once
Lookup(table, x, direct) == IF x \in DOMAIN table THEN table[x] ELSE direct

(***************************************************************************)
(* ValidationService                                                       *)
(***************************************************************************)
RateLimitMessage(minutesUntilReset) ==
    "Rate limit exceeded. Please try again in " \o ToString(minutesUntilReset) \o " minutes."

ConcurrencyMessage ==
    "Too many concurrent requests. Please wait for your previous generations to complete."

\* WindowExpired with the window length taken in seconds
WindowExpiredInSeconds(t, windowStart) == t - windowStart > RATE_LIMIT_WINDOW \div 1000

\* the window test of validateRateLimit
WindowExpired(t, windowStart) == t - windowStart > RATE_LIMIT_WINDOW

\* Math.ceil((RATE_LIMIT_WINDOW - (now - windowStart)) / 60000)
MinutesUntilReset(t, windowStart) ==
    CeilDiv(RATE_LIMIT_WINDOW - (t - windowStart), MsPerMinute)

\* the test with > for >=, and the quota test of validateRateLimit
QuotaExceeded(requests) == requests > MAX_REQUESTS_PER_HOUR
QuotaReached(requests) == requests >= MAX_REQUESTS_PER_HOUR

\* validateRateLimit that counts a rejected call against the quota too
validateRateLimitCountingRejections(rl, cr, userId, t) ==
    LET fetched == MapGet(rl, userId, [requests |-> 0, windowStart |-> t])
        userRateLimit ==
            IF WindowExpired(t, fetched.windowStart)
            THEN [requests |-> 0, windowStart |-> t]
            ELSE fetched
        counted == MapSet(rl, userId, [userRateLimit EXCEPT !.requests = @ + 1])
        concurrentCount == MapGet(cr, userId, 0)
        rejected == QuotaReached(userRateLimit.requests)
                        \/ concurrentCount >= MAX_CONCURRENT_GENERATIONS
    IN  [accepted |-> ~rejected,
         reason |-> IF QuotaReached(userRateLimit.requests) THEN "rate_limit"
                    ELSE IF rejected THEN "concurrency" ELSE "",
         error |-> IF QuotaReached(userRateLimit.requests)
                   THEN RateLimitMessage(MinutesUntilReset(t, userRateLimit.windowStart))
                   ELSE IF rejected THEN ConcurrencyMessage ELSE "",
         minutesUntilReset |-> IF QuotaReached(userRateLimit.requests)
                               THEN MinutesUntilReset(t, userRateLimit.windowStart) ELSE -1,
         requestsSeen |-> userRateLimit.requests,
         rateLimits |-> counted,
         concurrentRequests |-> IF rejected THEN cr ELSE MapSet(cr, userId, concurrentCount + 1)]

\* validateRateLimit(userId) at time t on the maps rl and cr.  The record held
\* by the map is mutated in place by the window reset, so a reset of a stored
\* record persists even when the call then throws.
validateRateLimit(rl, cr, userId, t) ==
    LET fetched == MapGet(rl, userId, [requests |-> 0, windowStart |-> t])
        userRateLimit ==
            IF WindowExpired(t, fetched.windowStart)
            THEN [requests |-> 0, windowStart |-> t]
            ELSE fetched
        rlReset == IF userId \in DOMAIN rl THEN [rl EXCEPT ![userId] = userRateLimit] ELSE rl
        concurrentCount == MapGet(cr, userId, 0)
    IN  IF QuotaReached(userRateLimit.requests)
        THEN [accepted |-> FALSE, reason |-> "rate_limit",
              error |-> RateLimitMessage(MinutesUntilReset(t, userRateLimit.windowStart)),
              minutesUntilReset |-> MinutesUntilReset(t, userRateLimit.windowStart),
              requestsSeen |-> userRateLimit.requests,
              rateLimits |-> rlReset, concurrentRequests |-> cr]
        ELSE IF concurrentCount >= MAX_CONCURRENT_GENERATIONS
        THEN [accepted |-> FALSE, reason |-> "concurrency",
              error |-> ConcurrencyMessage,
              minutesUntilReset |-> -1,
              requestsSeen |-> userRateLimit.requests,
              rateLimits |-> rlReset, concurrentRequests |-> cr]
        ELSE [accepted |-> TRUE, reason |-> "",
              error |-> "",
              minutesUntilReset |-> -1,
              requestsSeen |-> userRateLimit.requests,
              rateLimits |-> MapSet(rl, userId,
                                    [userRateLimit EXCEPT !.requests = @ + 1]),
              concurrentRequests |-> MapSet(cr, userId, concurrentCount + 1)]

\* decrementConcurrentRequests without the test for a positive count
decrementConcurrentRequestsUnguarded(cr, userId) ==
    MapSet(cr, userId, MapGet(cr, userId, 0) - 1)

decrementConcurrentRequests(cr, userId) ==
    LET concurrentCount == MapGet(cr, userId, 0)
    IN  IF concurrentCount > 0 THEN MapSet(cr, userId, concurrentCount - 1) ELSE cr

\* validateUserInput without the minimum length
validateUserInputNoMinimum(v) ==
    IF Falsy(v) \/ v.type # "string"
    THEN "Invalid input: Must provide a text description"
    ELSE IF Len(v.text) > MaxLength
    THEN "Input too long: Must be under 1000 characters"
    ELSE LET lower == ToLowerCase(v.text)
         IN  IF \E k \in DOMAIN blockedTerms : Includes(lower, blockedTerms[k])
             THEN "Invalid input: Contains prohibited terms"
             ELSE ""

\* validateUserInput(text): the message of the error thrown, "" when it returns true
validateUserInput(v) ==
    IF Falsy(v) \/ v.type # "string"
    THEN "Invalid input: Must provide a text description"
    ELSE IF Len(v.text) < MinLength
    THEN "Input too short: Please provide a more detailed description (at least 3 characters)"
    ELSE IF Len(v.text) > MaxLength
    THEN "Input too long: Must be under 1000 characters"
    ELSE LET lower == ToLowerCase(v.text)
         IN  IF \E k \in DOMAIN blockedTerms : Includes(lower, blockedTerms[k])
             THEN "Invalid input: Contains prohibited terms"
             ELSE ""

validateUserInputTable == [text \in PromptTexts |-> validateUserInput(Str(text))]
validateUserInputFast(v) ==
    IF v.type = "string" THEN Lookup(validateUserInputTable, v.text, validateUserInput(v))
    ELSE validateUserInput(v)

\* validateImageOptions(options): options has format and size, "" when absent
validateImageOptions(options) ==
    LET format == ToLowerCase(options.format)
    IN  IF options.format # "" /\ format \notin {"jpeg", "jpg", "png"}
        THEN [error |-> "Invalid format: Must be jpeg/jpg or png",
              options |-> [format |-> "", size |-> ""]]
        ELSE IF options.size # "" /\ options.size \notin {"small", "medium", "large"}
        THEN [error |-> "Invalid size: Must be one of small, medium, large",
              options |-> [format |-> "", size |-> ""]]
        ELSE [error |-> "",
              options |-> [format |-> IF options.format # "" THEN format ELSE "jpeg",
                           size |-> IF options.size # "" THEN options.size ELSE "medium"]]

(***************************************************************************)
(* PromptGuard                                                             *)
(***************************************************************************)
HighRiskTerms == <<"naked", "nude", "undressed", "sexual", "inappropriate">>
MinorTerms == <<"child", "children", "kid", "kids", "minor">>

\* detectProblematicContent(prompt): one issue per matching high-risk pattern
detectProblematicContent(prompt) ==
    (IF HasWordThenWord(prompt, HighRiskTerms, MinorTerms)
     THEN <<[type |-> "high_risk_content", pattern |-> 1, severity |-> "high"]>>
     ELSE <<>>)
    \o
    (IF HasWordThenWord(prompt, MinorTerms, HighRiskTerms)
     THEN <<[type |-> "high_risk_content", pattern |-> 2, severity |-> "high"]>>
     ELSE <<>>)

detectProblematicContentTable ==
    [prompt \in PromptTexts |-> detectProblematicContent(prompt)]
detectProblematicContentFast(prompt) ==
    Lookup(detectProblematicContentTable, prompt, detectProblematicContent(prompt))

\* the outcomes of qualityEnhancers.sort(() => 0.5 - Math.random()).slice(0, 3)
Shuffles ==
    {sh \in [1..3 -> DOMAIN qualityEnhancers] :
        sh[1] # sh[2] /\ sh[1] # sh[3] /\ sh[2] # sh[3]}

\* enhancePromptQuality(prompt) when the shuffle yields sh
enhancePromptQuality(prompt, sh) ==
    qualityEnhancers[sh[1]] \o ", " \o qualityEnhancers[sh[2]] \o ", "
        \o qualityEnhancers[sh[3]] \o ", " \o prompt
        \o ", photorealistic, professional photography, meaningful moment"

\* A reply of the auxiliary text model: it throws, or yields the text of the
\* first candidate ("" when the reply has no candidate).
AuxThrows == [throws |-> TRUE, text |-> ""]
AuxText(s) == [throws |-> FALSE, text |-> s]

\* smartPromptTransformation(originalPrompt) when the text model answers aux and
\* the shuffle yields sh; auxCalls counts the calls of textModel.generateContent
smartPromptTransformation(originalPrompt, aux, sh) ==
    LET issues == detectProblematicContentFast(originalPrompt)
        candidate == Trim(aux.text)
    IN  IF Len(issues) = 0
        THEN [original |-> originalPrompt,
              transformed |-> enhancePromptQuality(originalPrompt, sh),
              method |-> "quality_enhancement", issues |-> <<>>, auxCalls |-> 0]
        ELSE IF \E k \in DOMAIN issues : issues[k].severity = "high"
        THEN IF aux.throws
             THEN [original |-> originalPrompt,
                   transformed |-> enhancePromptQuality(originalPrompt, sh),
                   method |-> "quality_enhancement_fallback", issues |-> issues,
                   auxCalls |-> 1]
             ELSE IF candidate # ""
             THEN [original |-> originalPrompt,
                   transformed |-> StripQuotes(candidate),
                   method |-> "ai_safety_transformation", issues |-> issues,
                   auxCalls |-> 1]
             ELSE [original |-> originalPrompt,
                   transformed |-> enhancePromptQuality(originalPrompt, sh),
                   method |-> "quality_enhancement", issues |-> issues, auxCalls |-> 1]
        ELSE [original |-> originalPrompt,
              transformed |-> enhancePromptQuality(originalPrompt, sh),
              method |-> "quality_enhancement", issues |-> issues, auxCalls |-> 0]

(***************************************************************************)
(* GeminiService                                                           *)
(***************************************************************************)
\* isContentPolicyError comparing without toLowerCase
isContentPolicyErrorCaseSensitive(errorMessage) ==
    \E k \in DOMAIN apiErrorStrings.contentPolicy :
        Includes(errorMessage, apiErrorStrings.contentPolicy[k])

\* isContentPolicyError taking every 'API error' for a policy rejection
isContentPolicyErrorOrApiError(errorMessage) ==
    LET lower == ToLowerCase(errorMessage)
    IN  \/ Includes(lower, "api error")
        \/ \E k \in DOMAIN apiErrorStrings.contentPolicy :
               Includes(lower, ToLowerCase(apiErrorStrings.contentPolicy[k]))

\* isContentPolicyError(errorMessage)
isContentPolicyError(errorMessage) ==
    LET lower == ToLowerCase(errorMessage)
    IN  \E k \in DOMAIN apiErrorStrings.contentPolicy :
            Includes(lower, ToLowerCase(apiErrorStrings.contentPolicy[k]))

\* isQuotaError(errorMessage)
isQuotaError(errorMessage) ==
    LET lower == ToLowerCase(errorMessage)
    IN  \E k \in DOMAIN apiErrorStrings.quota :
            Includes(lower, ToLowerCase(apiErrorStrings.quota[k]))

\* the message testAuth throws when the credentials client fails with msg
testAuthError(msg) ==
    IF Includes(msg, "Invalid JWT Signature")
    THEN "JWT signature validation failed. Please regenerate your service account key."
    ELSE IF Includes(msg, "invalid_grant")
    THEN "Invalid grant error. Please check your service account permissions."
    ELSE IF Includes(msg, "Forbidden")
    THEN "Access denied. Ensure your service account has required IAM roles."
    ELSE "Authentication failed: " \o msg

\* the error texts the answers above lead to
ErrorTexts ==
    {r.text : r \in Responses}
    \cup {testAuthError(r.authError) : r \in Responses}
    \cup {r.tokenError : r \in Responses}
    \cup {r.fetchError : r \in Responses}
    \cup {imageModels[m] \o " API error: " \o ToString(r.status) \o " - " \o r.text :
              m \in DOMAIN imageModels, r \in Responses}
    \cup {"Content policy violation", "Content policy violation - empty response",
          "No image data in response", "Invalid response format from image generation API"}

isContentPolicyErrorTable == [msg \in ErrorTexts |-> isContentPolicyError(msg)]
isContentPolicyErrorFast(errorMessage) ==
    Lookup(isContentPolicyErrorTable, errorMessage, isContentPolicyError(errorMessage))

\* generateWithModel(prompt, modelName) on the answer resp: the image, or the
\* message of the error thrown
generateWithModel(prompt, modelName, resp) ==
    LET Throw(msg) == [ok |-> FALSE, error |-> msg, base64 |-> "", mimeType |-> ""]
    IN  IF resp.authError # "" THEN Throw(testAuthError(resp.authError))
        ELSE IF resp.tokenError # "" THEN Throw(resp.tokenError)
        ELSE IF resp.fetchError # "" THEN Throw(resp.fetchError)
        ELSE IF ~(resp.status >= 200 /\ resp.status <= 299)
        THEN IF resp.status = 400 /\ isContentPolicyErrorFast(resp.text)
             THEN Throw("Content policy violation")
             ELSE Throw(modelName \o " API error: " \o ToString(resp.status)
                            \o " - " \o resp.text)
        ELSE IF resp.predictions = "unparsable"
        THEN Throw("Invalid response format from image generation API")
        ELSE IF resp.predictions = "image"
        THEN [ok |-> TRUE, error |-> "", base64 |-> "aW1hZ2U=", mimeType |-> "image/png"]
        ELSE IF resp.predictions = "empty"
        THEN Throw("Content policy violation - empty response")
        ELSE Throw("No image data in response")

HumanTerms ==
    <<"child", "children", "kid", "kids", "boy", "girl", "baby", "babies",
      "infant", "toddler", "person", "people", "human">>

\* the text of the third strategy
UltraAbstract(prompt) ==
    "abstract artistic composition inspired by the concept of: "
        \o Substring0(ReplaceWords(prompt, HumanTerms, "element"), AbstractLength)
        \o ", digital art style"

UltraAbstractTable == [prompt \in PromptTexts |-> UltraAbstract(prompt)]
UltraAbstractFast(prompt) == Lookup(UltraAbstractTable, prompt, UltraAbstract(prompt))

\* Strategy with the ultra-abstract version before the smart transformation
StrategyAbstractSecond(i, prompt, aux, sh) ==
    IF i = 1
    THEN [original |-> prompt, transformed |-> prompt, method |-> "original",
          issues |-> <<>>, auxCalls |-> 0]
    ELSE IF i = 3
    THEN smartPromptTransformation(prompt, aux, sh)
    ELSE [original |-> prompt,
          transformed |-> UltraAbstractFast(prompt),
          method |-> "ultra_abstract", issues |-> <<>>, auxCalls |-> 0]

\* strategies[i - 1]() of generateImage
Strategy(i, prompt, aux, sh) ==
    IF i = 1
    THEN [original |-> prompt, transformed |-> prompt, method |-> "original",
          issues |-> <<>>, auxCalls |-> 0]
    ELSE IF i = 2
    THEN smartPromptTransformation(prompt, aux, sh)
    ELSE [original |-> prompt,
          transformed |-> UltraAbstractFast(prompt),
          method |-> "ultra_abstract", issues |-> <<>>, auxCalls |-> 0]

NumStrategies == 3

MinorsMessage ==
    "Unable to generate images with human subjects, especially minors. Try focusing on objects, landscapes, abstract art, or product photography instead."

AbstractMessage ==
    "Content policy violation. Please try rephrasing with more abstract, artistic language."

UpstreamRateLimitMessage == "Rate limit exceeded. Please try again later."

\* validatePrompt(prompt): the message of the error thrown, "" when it returns
validatePrompt(v) ==
    IF Falsy(v) \/ v.type # "string"
    THEN "Prompt is required and must be a string"
    ELSE IF Len(v.text) > MaxLength
    THEN "Prompt must be less than 1000 characters"
    ELSE ""

\* the catch block of generateImage: the error it rethrows for an error caught
generateImageCatch(message) ==
    IF isQuotaError(message) THEN UpstreamRateLimitMessage ELSE message

\* the error generateImage throws once the strategy loop is over
ExhaustedError(prompt) ==
    LET issues == detectProblematicContentFast(prompt)
        hasAgeIssues == \E k \in DOMAIN issues : issues[k].type = "age_related"
    IN  generateImageCatch(IF hasAgeIssues THEN MinorsMessage ELSE AbstractMessage)

ExhaustedErrorTable == [prompt \in PromptTexts |-> ExhaustedError(prompt)]
ExhaustedErrorFast(prompt) == Lookup(ExhaustedErrorTable, prompt, ExhaustedError(prompt))

\* GenerationResult reporting the prompt sent as the original prompt
GenerationResultPromptSent(r, out) ==
    [base64 |-> out.base64,
     mimeType |-> out.mimeType,
     promptUsed |-> r.promptResult.transformed,
     originalPrompt |-> r.promptResult.transformed,
     promptWasTransformed |-> r.promptResult.original # r.promptResult.transformed,
     transformationMethod |-> r.promptResult.method,
     modelUsed |-> imageModels[r.j],
     detectedIssues |-> r.promptResult.issues]

\* the object generateImage returns for a successful attempt of request r
GenerationResult(r, out) ==
    [base64 |-> out.base64,
     mimeType |-> out.mimeType,
     promptUsed |-> r.promptResult.transformed,
     originalPrompt |-> r.prompt,
     promptWasTransformed |-> r.promptResult.original # r.promptResult.transformed,
     transformationMethod |-> r.promptResult.method,
     modelUsed |-> imageModels[r.j],
     detectedIssues |-> r.promptResult.issues]

(***************************************************************************)
(* POST /api/generate                                                      *)
(***************************************************************************)
\* ErrorResponse that looks for the lower-case 'rate limit' only
ErrorResponseLowerCase(message) ==
    IF Includes(message, "content policy") \/ Includes(message, "safety")
    THEN [code |-> "CONTENT_POLICY_VIOLATION", status |-> 400,
          message |-> "Your request could not be processed due to content guidelines. Please try rephrasing your prompt or removing specific brand names."]
    ELSE IF Includes(message, "rate limit")
    THEN [code |-> "RATE_LIMIT_EXCEEDED", status |-> 429, message |-> message]
    ELSE IF Includes(message, "authentication") \/ Includes(message, "credentials")
    THEN [code |-> "AUTHENTICATION_ERROR", status |-> 503,
          message |-> "Service temporarily unavailable. Please try again later."]
    ELSE IF Includes(message, "quota") \/ Includes(message, "Quota")
    THEN [code |-> "QUOTA_EXCEEDED", status |-> 503,
          message |-> "Service quota exceeded. Please try again later."]
    ELSE IF Includes(message, "permission") \/ Includes(message, "Forbidden")
    THEN [code |-> "PERMISSION_ERROR", status |-> 503,
          message |-> "Service configuration error. Please contact support."]
    ELSE IF Includes(message, "Invalid") \/ Includes(message, "validation")
    THEN [code |-> "VALIDATION_ERROR", status |-> 400, message |-> message]
    ELSE [code |-> "GENERATION_ERROR", status |-> 400, message |-> message]

\* the catch block of the handler: error code, message and status for an error
ErrorResponse(message) ==
    IF Includes(message, "content policy") \/ Includes(message, "safety")
    THEN [code |-> "CONTENT_POLICY_VIOLATION", status |-> 400,
          message |-> "Your request could not be processed due to content guidelines. Please try rephrasing your prompt or removing specific brand names."]
    ELSE IF Includes(message, "rate limit") \/ Includes(message, "Rate limit")
    THEN [code |-> "RATE_LIMIT_EXCEEDED", status |-> 429, message |-> message]
    ELSE IF Includes(message, "authentication") \/ Includes(message, "credentials")
    THEN [code |-> "AUTHENTICATION_ERROR", status |-> 503,
          message |-> "Service temporarily unavailable. Please try again later."]
    ELSE IF Includes(message, "quota") \/ Includes(message, "Quota")
    THEN [code |-> "QUOTA_EXCEEDED", status |-> 503,
          message |-> "Service quota exceeded. Please try again later."]
    ELSE IF Includes(message, "permission") \/ Includes(message, "Forbidden")
    THEN [code |-> "PERMISSION_ERROR", status |-> 503,
          message |-> "Service configuration error. Please contact support."]
    ELSE IF Includes(message, "Invalid") \/ Includes(message, "validation")
    THEN [code |-> "VALIDATION_ERROR", status |-> 400, message |-> message]
    ELSE [code |-> "GENERATION_ERROR", status |-> 400, message |-> message]

\* the errors the handler's catch block can see
ThrownTexts ==
    {MinorsMessage, AbstractMessage, UpstreamRateLimitMessage, ConcurrencyMessage}
    \cup {RateLimitMessage(m) : m \in 0..60}
    \cup {validateUserInput(v) : v \in {Undefined} \cup {Str(text) : text \in PromptTexts}}
    \cup {validateImageOptions([format |-> f, size |-> ""]).error : f \in {"", "bmp"}}

ErrorResponseTable == [message \in ThrownTexts |-> ErrorResponse(message)]
ErrorResponseFast(message) == Lookup(ErrorResponseTable, message, ErrorResponse(message))

\* obj[field] || dflt for a string field the handler reads from the generation
\* result; a field the object does not have reads as undefined
StringFieldOr(obj, field, dflt) ==
    IF field \in DOMAIN obj /\ obj[field] # "" THEN obj[field] ELSE dflt

\* obj[field] || false for a boolean field
BooleanFieldOr(obj, field) ==
    IF field \in DOMAIN obj THEN obj[field] ELSE FALSE

\* the `prompt` object of the success response
SuccessPrompt(imageData, prompt) ==
    [original |-> StringFieldOr(imageData, "originalPrompt", prompt),
     used |-> imageData.promptUsed,
     wasOptimized |-> BooleanFieldOr(imageData, "promptWasOptimized"),
     optimizationMethod |-> StringFieldOr(imageData, "optimizationMethod", "none")]

\* userId = req.ip || 'anonymous'; ip is "" when req.ip is undefined
UserIdOf(ip) == IF ip = "" THEN "anonymous" ELSE ip

\* whether the finally block calls decrementConcurrentRequests
FinallyDecrements(userId) == userId # "" /\ userId # "anonymous"

\* the finally block of the handler
Finally(cr, userId) ==
    IF FinallyDecrements(userId) THEN decrementConcurrentRequests(cr, userId) ELSE cr

NoPromptBody == [original |-> "", used |-> "", wasOptimized |-> FALSE, optimizationMethod |-> ""]

NoResult ==
    [base64 |-> "", mimeType |-> "", promptUsed |-> "", originalPrompt |-> "",
     promptWasTransformed |-> FALSE, transformationMethod |-> "", modelUsed |-> "",
     detectedIssues |-> <<>>]

\* history record of a terminated request
NoRequest ==
    [stage |-> "none", userId |-> "", prompt |-> Undefined,
     calledRateLimit |-> FALSE, accepted |-> FALSE, requestsSeen |-> -1,
     minutesUntilReset |-> -1, decrements |-> 0,
     status |-> 0, code |-> "", message |-> "", thrown |-> "",
     body |-> NoPromptBody, result |-> NoResult,
     calls |-> <<>>, auxCalls |-> 0]

\* NewRequest starting with the ultra-abstract version
NewRequestAbstractFirst(userId, prompt, options) ==
    [userId |-> userId, prompt |-> prompt, options |-> options,
     i |-> 1, j |-> 1,
     promptResult |-> Strategy(3, prompt, AuxThrows, <<1, 2, 3>>),
     lastError |-> "",
     calls |-> <<>>, auxCalls |-> 0]

\* the request object while it is suspended in generateImage
NewRequest(userId, prompt, options) ==
    [userId |-> userId, prompt |-> prompt, options |-> options,
     i |-> 1, j |-> 1,
     promptResult |-> Strategy(1, prompt, AuxThrows, <<1, 2, 3>>),
     lastError |-> "",
     calls |-> <<>>, auxCalls |-> 0]

\* RemoveAt that leaves the sequence as it is
RemoveAtKeep(seq, k) == seq

RemoveAt(seq, k) == SubSeq(seq, 1, k - 1) \o SubSeq(seq, k + 1, Len(seq))

\* the catch and finally blocks for an error thrown before generation started
Rejected(rec, stage, thrown) ==
    LET response == ErrorResponseFast(thrown)
    IN  [rec EXCEPT !.stage = stage, !.thrown = thrown,
                    !.status = response.status,
                    !.code = response.code,
                    !.message = response.message]

(***************************************************************************)
(* Actions                                                                 *)
(***************************************************************************)
Init ==
    /\ now = 0
    /\ rateLimits = EmptyMap
    /\ concurrentRequests = EmptyMap
    /\ inflight = <<>>
    /\ last = NoRequest
    /\ acceptedAt = EmptyMap
    /\ arrivals = 0
    /\ ticks = 0
    /\ draft = NoDraft("")

\* A POST /api/generate request arrives: the handler runs from its first line
\* to `await geminiService.generateImage`, or to the end of its finally block
\* when it answers before that.
Arrive(ip, prompt, options) ==
    LET userId == UserIdOf(ip)
        vr == validateRateLimit(rateLimits, concurrentRequests, userId, now)
        inputError == validateUserInputFast(prompt)
        vo == validateImageOptions(options)
        promptError == validatePrompt(prompt)
        rec == [NoRequest EXCEPT !.userId = userId, !.prompt = prompt,
                                 !.decrements = IF FinallyDecrements(userId) THEN 1 ELSE 0]
        checked == [rec EXCEPT !.calledRateLimit = TRUE, !.accepted = vr.accepted,
                               !.requestsSeen = vr.requestsSeen,
                               !.minutesUntilReset = vr.minutesUntilReset]
        noted == MapSet(acceptedAt, userId, Append(MapGet(acceptedAt, userId, <<>>), now))
    IN  /\ Len(inflight) < MaxInflight
        /\ arrivals' = arrivals + 1
        /\ UNCHANGED <<now, ticks, draft>>
        /\ IF Falsy(prompt)
           THEN /\ last' = [rec EXCEPT !.stage = "missing_prompt", !.status = 400,
                                       !.code = "MISSING_PROMPT",
                                       !.message = "Prompt is required"]
                /\ concurrentRequests' = Finally(concurrentRequests, userId)
                /\ UNCHANGED <<rateLimits, inflight, acceptedAt>>
           ELSE IF ~vr.accepted
           THEN /\ last' = Rejected(checked, vr.reason, vr.error)
                /\ rateLimits' = vr.rateLimits
                /\ concurrentRequests' = Finally(vr.concurrentRequests, userId)
                /\ UNCHANGED <<inflight, acceptedAt>>
           ELSE IF inputError # ""
           THEN /\ last' = Rejected(checked, "input", inputError)
                /\ rateLimits' = vr.rateLimits
                /\ concurrentRequests' = Finally(vr.concurrentRequests, userId)
                /\ acceptedAt' = noted
                /\ UNCHANGED inflight
           ELSE IF vo.error # ""
           THEN /\ last' = Rejected(checked, "options", vo.error)
                /\ rateLimits' = vr.rateLimits
                /\ concurrentRequests' = Finally(vr.concurrentRequests, userId)
                /\ acceptedAt' = noted
                /\ UNCHANGED inflight
           ELSE IF promptError # ""
           THEN /\ last' = Rejected(checked, "generation", generateImageCatch(promptError))
                /\ rateLimits' = vr.rateLimits
                /\ concurrentRequests' = Finally(vr.concurrentRequests, userId)
                /\ acceptedAt' = noted
                /\ UNCHANGED inflight
           ELSE /\ inflight' = Append(inflight, NewRequest(userId, prompt.text, vo.options))
                /\ rateLimits' = vr.rateLimits
                /\ concurrentRequests' = vr.concurrentRequests
                /\ acceptedAt' = noted
                /\ last' = NoRequest

\* the history record of request r when it terminates
TerminatedRequest(r) ==
    [NoRequest EXCEPT !.userId = r.userId, !.prompt = Str(r.prompt),
                      !.calledRateLimit = TRUE, !.accepted = TRUE,
                      !.decrements = IF FinallyDecrements(r.userId) THEN 1 ELSE 0,
                      !.calls = r.calls, !.auxCalls = r.auxCalls]

\* The upstream call of in-flight request k returns with resp: generateImage
\* runs on to its next upstream call, or to its end, and then the handler to
\* the end of its finally block.  auxes and shuffles are the answers the text
\* model and Math.random can give when the second strategy is built.
UpstreamCall(k, resp, auxes, shuffles) ==
    LET r == inflight[k]
        out == generateWithModel(r.promptResult.transformed, imageModels[r.j], resp)
        call == [strategy |-> r.i, model |-> r.j, prompt |-> r.promptResult.transformed,
                 method |-> r.promptResult.method, ok |-> out.ok, error |-> out.error]
        r1 == [r EXCEPT !.calls = Append(@, call),
                        !.lastError = IF out.ok THEN @ ELSE out.error]
        imageData == GenerationResult(r, out)
        thrown == ExhaustedErrorFast(r.prompt)
    IN  /\ k \in DOMAIN inflight
        /\ UNCHANGED <<now, rateLimits, acceptedAt, arrivals, ticks, draft>>
        /\ IF out.ok
           THEN /\ last' = [TerminatedRequest(r1) EXCEPT
                                !.stage = "success", !.status = 200,
                                !.body = SuccessPrompt(imageData, r.prompt),
                                !.result = imageData]
                /\ inflight' = RemoveAt(inflight, k)
                /\ concurrentRequests' = Finally(concurrentRequests, r.userId)
           ELSE IF ~isContentPolicyErrorFast(out.error) /\ r.j < Len(imageModels)
           THEN /\ inflight' = [inflight EXCEPT ![k] = [r1 EXCEPT !.j = @ + 1]]
                /\ last' = NoRequest /\ UNCHANGED concurrentRequests
           ELSE IF r.i < NumStrategies
           THEN /\ \E aux \in (IF r.i + 1 = 2 THEN auxes ELSE {AuxThrows}),
                      sh \in (IF r.i + 1 = 2 THEN shuffles ELSE {<<1, 2, 3>>}) :
                      LET promptResult == Strategy(r.i + 1, r.prompt, aux, sh)
                      IN  inflight' = [inflight EXCEPT ![k] =
                              [r1 EXCEPT !.i = @ + 1, !.j = 1,
                                         !.promptResult = promptResult,
                                         !.auxCalls = @ + promptResult.auxCalls]]
                /\ last' = NoRequest /\ UNCHANGED concurrentRequests
           ELSE /\ last' = Rejected(TerminatedRequest(r1), "generation", thrown)
                /\ inflight' = RemoveAt(inflight, k)
                /\ concurrentRequests' = Finally(concurrentRequests, r.userId)

\* Time passes.  acceptedAt keeps the acceptances of the last window length.
Tick(d) ==
    /\ now' = now + d
    /\ ticks' = ticks + 1
    /\ acceptedAt' = [u \in DOMAIN acceptedAt |->
                        SelectSeq(acceptedAt[u],
                                  LAMBDA t : t >= (now + d) - RATE_LIMIT_WINDOW)]
    /\ last' = NoRequest
    /\ UNCHANGED <<rateLimits, concurrentRequests, inflight, arrivals, draft>>

(***************************************************************************)
(* Spec: requests of two identities, one of them without client address,   *)
(* racing for the concurrency counter; the clock stands still.             *)
(***************************************************************************)
Next ==
    \/ \E ip \in {ClientIp, ""}, prompt \in {Undefined, Str("ab"), Str(BicyclePrompt)} :
          arrivals < MaxArrivals /\ Arrive(ip, prompt, NoOptions)
    \/ \E k \in DOMAIN inflight, resp \in {RespImage, RespPolicy} :
          UpstreamCall(k, resp, {AuxThrows}, {<<1, 2, 3>>})

Spec == Init /\ [][Next]_vars

(***************************************************************************)
(* SpecRate: one identity against the hourly window; the clock advances.   *)
(* Its requests are answered before generation starts: the quota is spent  *)
(* by the check itself, whatever becomes of the request afterwards.        *)
(***************************************************************************)
TickSteps == {1, RATE_LIMIT_WINDOW}

NextRate ==
    \/ \E prompt \in {Undefined, Str("ab")} :
          arrivals < MaxArrivalsRate /\ Arrive(ClientIp, prompt, NoOptions)
    \/ \E d \in TickSteps : ticks < MaxTicks /\ Tick(d)

SpecRate == Init /\ [][NextRate]_vars

(***************************************************************************)
(* SpecGen: one request through validation and the strategy/model loop.    *)
(***************************************************************************)
GenPrompts ==
    {Undefined, Num(5), Str(""), Str("ab"), Str(TooLongPrompt), Str(LongestPrompt),
     Str(BicyclePrompt), Str(BirthdayPrompt), Str(HighRiskPrompt)}

GenAuxes == {AuxThrows, AuxText(""), AuxText(" \"festive costumes on a rack\" ")}

NextGen ==
    \/ \E prompt \in GenPrompts, format \in {"", "PNG", "bmp"} :
          arrivals < MaxArrivalsGen /\ inflight = <<>> /\ Arrive(ClientIp, prompt, [format |-> format, size |-> ""])
    \/ \E k \in DOMAIN inflight, resp \in {RespImage, RespPolicy, RespQuota} :
          UpstreamCall(k, resp, GenAuxes, Shuffles)

SpecGen == Init /\ [][NextGen]_vars

(***************************************************************************)
(* SpecQuota: one identity spends its hourly quota on requests that go      *)
(* into generation, while earlier requests are still pending.              *)
(***************************************************************************)
NextQuota ==
    \/ arrivals < MaxArrivalsRate /\ Arrive(ClientIp, Str(BicyclePrompt), NoOptions)
    \/ \E k \in DOMAIN inflight, resp \in {RespImage, RespPolicy} :
          UpstreamCall(k, resp, {AuxThrows}, {<<1, 2, 3>>})

SpecQuota == Init /\ [][NextQuota]_vars

(***************************************************************************)
(* SpecFail: one request whose upstream calls fail for a reason other than *)
(* policy: credentials, network, a 503 answer, a body that is not JSON.    *)
(***************************************************************************)
FailResponses == {RespAuth, RespNetwork, RespUnavailable, RespUnparsable}

NextFail ==
    \/ arrivals < MaxArrivalsGen /\ inflight = <<>>
          /\ Arrive(ClientIp, Str(BicyclePrompt), NoOptions)
    \/ \E k \in DOMAIN inflight, resp \in FailResponses :
          UpstreamCall(k, resp, {AuxThrows}, {<<1, 2, 3>>})

SpecFail == Init /\ [][NextFail]_vars

(***************************************************************************)
(* SpecAuth: one request while the credentials client fails on every       *)
(* upstream attempt, in testAuth or in getAccessToken.                     *)
(***************************************************************************)
NextAuth ==
    \/ arrivals < MaxArrivalsGen /\ inflight = <<>>
          /\ Arrive(ClientIp, Str(BicyclePrompt), NoOptions)
    \/ \E k \in DOMAIN inflight, resp \in {RespAuth, RespToken} :
          UpstreamCall(k, resp, {AuxThrows}, {<<1, 2, 3>>})

SpecAuth == Init /\ [][NextAuth]_vars

(***************************************************************************)
(* SpecPayload: one request whose upstream calls are answered with an OK   *)
(* status, with or without an image in the body.                           *)
(***************************************************************************)
PayloadResponses == {RespImage, RespEmpty, RespNoBytes, RespNoPredictions}

NextPayload ==
    \/ \E prompt \in {Str(BicyclePrompt), Str(HighRiskPrompt)} :
          arrivals < MaxArrivalsGen /\ inflight = <<>> /\ Arrive(ClientIp, prompt, NoOptions)
    \/ \E k \in DOMAIN inflight, resp \in PayloadResponses :
          UpstreamCall(k, resp, GenAuxes, {<<1, 2, 3>>})

SpecPayload == Init /\ [][NextPayload]_vars

(***************************************************************************)
(* SpecCount: one identity spends its hourly quota on requests that fail   *)
(* input validation and on requests that go into generation.               *)
(***************************************************************************)
NextCount ==
    \/ \E prompt \in {Str("ab"), Str(BicyclePrompt)} :
          arrivals < MaxArrivalsRate /\ Arrive(ClientIp, prompt, NoOptions)
    \/ \E k \in DOMAIN inflight, resp \in {RespImage, RespPolicy} :
          UpstreamCall(k, resp, {AuxThrows}, {<<1, 2, 3>>})

SpecCount == Init /\ [][NextCount]_vars

(***************************************************************************)
(* SpecEcho: one request for which the text model may answer with the      *)
(* prompt it was given, in quotes.                                         *)
(***************************************************************************)
EchoAuxes == {AuxThrows, AuxText("\"" \o HighRiskPrompt \o "\"")}

NextEcho ==
    \/ \E prompt \in {Str(BicyclePrompt), Str(HighRiskPrompt)} :
          arrivals < MaxArrivalsGen /\ inflight = <<>> /\ Arrive(ClientIp, prompt, NoOptions)
    \/ \E k \in DOMAIN inflight, resp \in {RespImage, RespPolicy, RespNetwork} :
          UpstreamCall(k, resp, EchoAuxes, {<<1, 2, 3>>})

SpecEcho == Init /\ [][NextEcho]_vars

(***************************************************************************)
(* SpecLive: SpecGen's request under the assumption that every upstream    *)
(* call eventually returns or fails: a pending call is answered.           *)
(***************************************************************************)
LiveResponses == {RespImage, RespPolicy, RespNetwork}

Respond ==
    \E k \in DOMAIN inflight, resp \in LiveResponses :
        UpstreamCall(k, resp, GenAuxes, {<<1, 2, 3>>})

NextLive ==
    \/ \E prompt \in {Str(BicyclePrompt), Str(HighRiskPrompt)} :
          arrivals < MaxArrivalsGen /\ inflight = <<>> /\ Arrive(ClientIp, prompt, NoOptions)
    \/ Respond

SpecLive == Init /\ [][NextLive]_vars /\ WF_vars(Respond)

(***************************************************************************)
(* Age-related content as the content detection configuration names it     *)
(* (agePatterns), the category the final error message of generateImage    *)
(* asks for.                                                               *)
(***************************************************************************)
DigitSet == {CharAt(Digits, i) : i \in 1..10}

\* positions after one of the literals ws, matched at a position of P
AfterLiteral(s, P, ws) ==
    {p + Len(ws[k]) : p \in P, k \in DOMAIN ws} \cap
    {e \in 1..(Len(s) + 1) : \E p \in P, k \in DOMAIN ws :
        e = p + Len(ws[k]) /\ MatchesAt(s, p, ws[k])}

\* positions after [\s-]? matched at a position of P
AfterOptionalSeparator(s, P) ==
    P \cup {p + 1 : p \in {q \in P : q <= Len(s) /\ CharAt(s, q) \in {" ", "-"}}}

\* positions after \d+ matched at i
AfterDigits(s, i) ==
    {e \in (i + 1)..(Len(s) + 1) : \A m \in i..(e - 1) : CharAt(s, m) \in DigitSet}

\* positions after \s+ matched at a position of P
AfterSpaces(s, P) ==
    {e \in 1..(Len(s) + 1) : \E p \in P : p < e /\ \A m \in p..(e - 1) : IsSpace(CharAt(s, m))}

AgeTerms ==
    <<"child", "children", "kid", "kids", "boy", "girl", "baby", "babies",
      "infant", "toddler", "teen", "teenager">>
SchoolTerms == <<"school", "student", "pupil", "kindergarten", "preschool">>
YoungTerms == <<"minor", "juvenile", "youth", "young", "little", "small">>
PersonTerms == <<"person", "people", "human", "individual">>

\* /\b(?:\d+[\s-]?(?:year|yr)[\s-]?old|years?\s+old)\b/i
HasAgeInYears(s) ==
    \E i \in 1..Len(s) :
        /\ Boundary(s, i)
        /\ LET numbered ==
                   AfterLiteral(s,
                       AfterOptionalSeparator(s,
                           AfterLiteral(s, AfterOptionalSeparator(s, AfterDigits(s, i)),
                                        <<"year", "yr">>)),
                       <<"old">>)
               plain ==
                   AfterLiteral(s, AfterSpaces(s, AfterLiteral(s, {i}, <<"years", "year">>)),
                                <<"old">>)
           IN  \E e \in numbered \cup plain : Boundary(s, e)

\* /\b(?:minor|...|small)\s+(?:person|people|human|individual)\b/i
HasYoungPerson(s) ==
    \E i \in 1..Len(s) :
        /\ Boundary(s, i)
        /\ \E e \in AfterLiteral(s, AfterSpaces(s, AfterLiteral(s, {i}, YoungTerms)),
                                 PersonTerms) : Boundary(s, e)

\* some agePatterns entry matches the prompt
AgeRelated(prompt) ==
    \/ HasWord(prompt, AgeTerms)
    \/ HasAgeInYears(prompt)
    \/ HasYoungPerson(prompt)
    \/ HasWord(prompt, SchoolTerms)

AgeRelatedTable == [prompt \in PromptTexts |-> AgeRelated(prompt)]
AgeRelatedFast(prompt) == Lookup(AgeRelatedTable, prompt, AgeRelated(prompt))

(***************************************************************************)
(* PromptGuard.ruleBasedTransformation with the replacements of the        *)
(* content detection configuration.                                        *)
(***************************************************************************)
\* where /\b\d+[\s-]?(?:year|yr)[\s-]?old\b/i ends when matched at i
AgeInYearsEnd(s, i) ==
    IF ~Boundary(s, i) THEN {}
    ELSE {e \in AfterLiteral(s,
                    AfterOptionalSeparator(s,
                        AfterLiteral(s, AfterOptionalSeparator(s, AfterDigits(s, i)),
                                     <<"year", "yr">>)),
                    <<"old">>) : Boundary(s, e)}

\* where /\byears?\s+old\b/i ends when matched at i
YearsOldEnd(s, i) ==
    IF ~Boundary(s, i) THEN {}
    ELSE {e \in AfterLiteral(s, AfterSpaces(s, AfterLiteral(s, {i}, <<"years", "year">>)),
                             <<"old">>) : Boundary(s, e)}

\* where the longest run of white space starting at i ends
SpacesEnd(s, i) ==
    {e \in AfterSpaces(s, {i}) : e > Len(s) \/ ~IsSpace(CharAt(s, e))}

\* where /milk\s*fro/ ends when matched at i
MilkFroEnd(s, i) ==
    IF i + 3 > Len(s) \/ SubSeq(s, i, i + 3) # "milk" THEN {}
    ELSE {f + 3 : f \in {g \in AfterSpaces(s, {i + 4}) \cup {i + 4} :
                            g + 2 <= Len(s) /\ SubSeq(s, g, g + 2) = "fro"}}

\* the matches of a pattern, given the ends of its matches at every position:
\* the end of the longest match for every start
SpanEnds(endsAt) ==
    [i \in {j \in DOMAIN endsAt : endsAt[j] # {}} |->
        CHOOSE e \in endsAt[i] : \A f \in endsAt[i] : f <= e]

\* s.replace(pattern, repl) from position i on, for a pattern with the g flag
\* (all) or without it: the leftmost matches that do not overlap are replaced
RECURSIVE ReplaceSpans(_, _, _, _, _)
ReplaceSpans(s, i, ends, repl, all) ==
    LET starts == {j \in DOMAIN ends : j >= i}
    IN  IF starts = {} THEN SubSeq(s, i, Len(s))
        ELSE LET j == CHOOSE j \in starts : \A m \in starts : j <= m
             IN  SubSeq(s, i, j - 1) \o repl
                     \o (IF all THEN ReplaceSpans(s, ends[j], ends, repl, all)
                         ELSE SubSeq(s, ends[j], Len(s)))

\* contentDetection.replacements after the two age patterns
replacements ==
    <<[words |-> <<"child", "children", "kid", "kids", "boy", "girl", "baby", "babies",
                   "infant", "toddler">>, replacement |-> "product"],
      [words |-> <<"person", "people", "human", "individual", "model">>,
       replacement |-> "item"],
      [words |-> <<"drinking", "eating", "consuming">>, replacement |-> "featuring"],
      [words |-> <<"holding", "grasping", "clutching">>, replacement |-> "displaying"],
      [words |-> <<"photoshoot">>, replacement |-> "product photography"],
      [words |-> <<"modeling">>, replacement |-> "artistic arrangement"],
      [words |-> <<"pose">>, replacement |-> "composition"]>>

\* the loop over the replacements, from entry k on
RECURSIVE ApplyReplacements(_, _)
ApplyReplacements(s, k) ==
    IF k > Len(replacements) THEN s
    ELSE ApplyReplacements(ReplaceWords(s, replacements[k].words, replacements[k].replacement),
                           k + 1)

\* ruleBasedTransformation(originalPrompt, issues)
ruleBasedTransformation(originalPrompt, issues) ==
    LET noAge == ReplaceSpans(originalPrompt, 1, SpanEnds([i \in 1..Len(originalPrompt) |-> AgeInYearsEnd(originalPrompt, i)]), "", TRUE)
        noYears == ReplaceSpans(noAge, 1, SpanEnds([i \in 1..Len(noAge) |-> YearsOldEnd(noAge, i)]), "", TRUE)
        replaced == ApplyReplacements(noYears, 1)
        spaced == ReplaceSpans(replaced, 1, SpanEnds([i \in 1..Len(replaced) |-> SpacesEnd(replaced, i)]), " ", TRUE)
        prefixed == "artistic still life composition featuring " \o Trim(spaced)
        transformed == ReplaceSpans(prefixed, 1, SpanEnds([i \in 1..Len(prefixed) |-> MilkFroEnd(prefixed, i)]),
                                    "milk glass with frothy texture", FALSE)
    IN  [original |-> originalPrompt, transformed |-> transformed,
         method |-> "rule_based_transformation", issues |-> issues]

\* ruleBasedTransformation(originalPrompt, issues) of the later revision of
\* PromptGuard (method 'conservative_rule_based'), when the shuffle yields sh
conservativeRuleBasedTransformation(originalPrompt, issues, sh) ==
    LET clothed == ReplaceWords(originalPrompt, <<"naked", "nude", "undressed">>, "clothed")
        minimal == ReplaceWords(clothed, <<"sexual", "inappropriate">>, "appropriate")
        transformed ==
            IF \E k \in DOMAIN issues : issues[k].severity = "high"
            THEN minimal ELSE originalPrompt
    IN  [original |-> originalPrompt, transformed |-> enhancePromptQuality(transformed, sh),
         method |-> "conservative_rule_based", issues |-> issues]

(***************************************************************************)
(* SpecRule: ruleBasedTransformation applied again and again to its own    *)
(* output, starting from a prompt.                                         *)
(***************************************************************************)
RulePrompts ==
    {a \o " " \o b \o " " \o c :
        a \in {"5 year old girl", "A person", "two years  old toddler", "model", "red bicycle"},
        b \in {"drinking", "holding", "near"},
        c \in {"milk froth", "a cup", "at a photoshoot"}}

InitRule ==
    /\ now = 0
    /\ rateLimits = EmptyMap
    /\ concurrentRequests = EmptyMap
    /\ inflight = <<>>
    /\ last = NoRequest
    /\ acceptedAt = EmptyMap
    /\ arrivals = 0
    /\ ticks = 0
    /\ draft \in {NoDraft(text) : text \in RulePrompts}

RulePass ==
    /\ draft.passes < MaxPasses
    /\ draft' = [text |-> ruleBasedTransformation(draft.text, <<>>).transformed,
                 previous |-> draft.text,
                 passes |-> draft.passes + 1]
    /\ UNCHANGED <<now, rateLimits, concurrentRequests, inflight, last, acceptedAt,
                   arrivals, ticks>>

NextRule == RulePass

SpecRule == InitRule /\ [][NextRule]_vars

(***************************************************************************)
(* SpecAbstract: the third strategy of generateImage builds its variant    *)
(* from a prompt.                                                          *)
(***************************************************************************)
AbstractPrompts ==
    {a \o " " \o b \o " " \o c :
        a \in {"a child and two kids", "a mural about the past", "portrait of a person",
               "BABY boy with a kite"},
        b \in {"painted in the manner of", "standing at the gate to", "near",
               "beside a very old and tall"},
        c \in {"humanity at dawn", "kidney beans", "personal letters", "a girl"}}

InitAbstract ==
    /\ now = 0
    /\ rateLimits = EmptyMap
    /\ concurrentRequests = EmptyMap
    /\ inflight = <<>>
    /\ last = NoRequest
    /\ acceptedAt = EmptyMap
    /\ arrivals = 0
    /\ ticks = 0
    /\ draft \in {NoDraft(text) : text \in AbstractPrompts}

AbstractPass ==
    /\ draft.passes = 0
    /\ draft' = [text |-> Strategy(3, draft.text, AuxThrows, <<1, 2, 3>>).transformed,
                 previous |-> draft.text,
                 passes |-> 1]
    /\ UNCHANGED <<now, rateLimits, concurrentRequests, inflight, last, acceptedAt,
                   arrivals, ticks>>

NextAbstract == AbstractPass

SpecAbstract == InitAbstract /\ [][NextAbstract]_vars

(***************************************************************************)
(* Properties                                                              *)
(***************************************************************************)
\* the identities seen so far
Identities == DOMAIN rateLimits \cup DOMAIN concurrentRequests \cup DOMAIN acceptedAt
                  \cup {inflight[k].userId : k \in DOMAIN inflight}

\* the accepted requests of identity u that have not terminated
Pending(u) == {k \in DOMAIN inflight : inflight[k].userId = u}

\* the upstream call logs of the requests in flight and of the last terminated one
CallLogs == {inflight[k].calls : k \in DOMAIN inflight} \cup {last.calls}

\* the error text carries one of the configured contentPolicy substrings
PolicySignalTable ==
    [msg \in ErrorTexts |->
        \E k \in DOMAIN apiErrorStrings.contentPolicy :
            Includes(ToLowerCase(msg), apiErrorStrings.contentPolicy[k])]
PolicySignal(msg) == msg \in DOMAIN PolicySignalTable /\ PolicySignalTable[msg]

\* the error text carries one of the configured quota substrings
QuotaSignalTable ==
    [msg \in ErrorTexts |->
        \E k \in DOMAIN apiErrorStrings.quota :
            Includes(ToLowerCase(msg), apiErrorStrings.quota[k])]
QuotaSignal(msg) == msg \in DOMAIN QuotaSignalTable /\ QuotaSignalTable[msg]

MethodsOfStrategy ==
    <<{"original"},
      {"quality_enhancement", "quality_enhancement_fallback", "ai_safety_transformation"},
      {"ultra_abstract"}>>

\* C1: decrementConcurrentRequests is invoked exactly once for a request whose
\* validateRateLimit call accepted, and not at all for any other request.
C1_ExactlyOnceRelease ==
    last.stage # "none" => last.decrements = (IF last.accepted THEN 1 ELSE 0)

\* C2: the number of accepted and unfinished requests of an identity never
\* exceeds MAX_CONCURRENT_GENERATIONS.
C2_ConcurrencyLimit ==
    \A u \in Identities : Cardinality(Pending(u)) <= MAX_CONCURRENT_GENERATIONS

\* C3: once every request of an identity has terminated, its concurrent count
\* is 0, for the identity 'anonymous' too.
C3_NoLeakedCount ==
    \A u \in DOMAIN concurrentRequests : Pending(u) = {} => concurrentRequests[u] = 0

\* the acceptances of identity u since windowStart
AcceptedSince(u, windowStart) ==
    SelectSeq(MapGet(acceptedAt, u, <<>>), LAMBDA t : t >= windowStart)

C4_State ==
    /\ \A u \in DOMAIN rateLimits :
          /\ rateLimits[u].requests <= MAX_REQUESTS_PER_HOUR
          /\ now - rateLimits[u].windowStart <= RATE_LIMIT_WINDOW =>
                 Len(AcceptedSince(u, rateLimits[u].windowStart)) = rateLimits[u].requests
    /\ last.calledRateLimit =>
          /\ last.requestsSeen >= MAX_REQUESTS_PER_HOUR <=> last.stage = "rate_limit"
          /\ last.stage = "rate_limit" =>
                 /\ ~last.accepted
                 /\ last.thrown = RateLimitMessage(last.minutesUntilReset)

C4_Step ==
    \A u \in DOMAIN rateLimits :
        (\/ rateLimits'[u].requests < rateLimits[u].requests
         \/ rateLimits'[u].windowStart # rateLimits[u].windowStart)
        => /\ now - rateLimits[u].windowStart > RATE_LIMIT_WINDOW
           /\ rateLimits'[u].windowStart = now
           /\ rateLimits'[u].requests <= 1

C5_PositiveMinutes ==
    last.stage = "rate_limit" =>
        last.minutesUntilReset >= 1 /\ last.minutesUntilReset <= 60

C7_PolicyShortCircuit ==
    /\ \A log \in CallLogs : \A n \in 1..(Len(log) - 1) :
          (~log[n].ok /\ PolicySignal(log[n].error)) =>
              /\ log[n + 1].strategy = log[n].strategy + 1
              /\ log[n + 1].model = 1
              /\ log[n + 1].method \in MethodsOfStrategy[log[n + 1].strategy]
    /\ \A k \in DOMAIN inflight :
          LET log == inflight[k].calls
          IN  (Len(log) > 0 /\ ~log[Len(log)].ok /\ PolicySignal(log[Len(log)].error)) =>
                  /\ inflight[k].i = log[Len(log)].strategy + 1
                  /\ inflight[k].j = 1

\* a policy rejection on a model that is not the last one, followed by a call
C7_Witness ==
    \E n \in 1..(Len(last.calls) - 1) :
        /\ PolicySignal(last.calls[n].error)
        /\ last.calls[n].model < Len(imageModels)
        /\ last.calls[n + 1].strategy = 2

\* C8: a request that fails after an upstream call failed with a quota error
\* fails with the rate-limit failure.
C8_QuotaSurfaced ==
    (/\ last.stage = "generation"
     /\ \E n \in DOMAIN last.calls : QuotaSignal(last.calls[n].error))
    => last.thrown = UpstreamRateLimitMessage

\* the prompt is a string shorter than 3 or longer than 1000 characters
BadLength(v) == v.type = "string" /\ (Len(v.text) < MinLength \/ Len(v.text) > MaxLength)

\* C9: a request whose prompt is shorter than 3 or longer than 1000 characters
\* is answered with a 4xx status before generation, without any upstream call,
\* and no such request is ever in generation.
C9_BadLengthRejected ==
    /\ (last.stage # "none" /\ BadLength(last.prompt)) =>
          /\ last.status >= 400 /\ last.status <= 499
          /\ last.stage \in {"missing_prompt", "rate_limit", "concurrency", "input"}
          /\ last.calls = <<>>
          /\ last.auxCalls = 0
    /\ \A k \in DOMAIN inflight : ~BadLength(Str(inflight[k].prompt))

\* a prompt of 1001 characters was rejected by validateUserInput
C9_Witness ==
    /\ last.stage = "input"
    /\ Len(last.prompt.text) = MaxLength + 1
    /\ last.status = 400

\* C10: when all strategies are exhausted, generateImage fails with the
\* minors message exactly when the original prompt has an age-related issue,
\* and with the abstract-language message otherwise.
C10_MessageByOriginalIssues ==
    (last.stage = "generation" /\ Len(last.calls) > 0) =>
        last.thrown = (IF AgeRelatedFast(last.prompt.text)
                       THEN MinorsMessage ELSE AbstractMessage)

\* the request ended because every strategy was tried without an image
Exhausted == last.stage = "generation" /\ Len(last.calls) > 0

\* C11: a request whose strategies are all exhausted is answered with status
\* 400 and error code CONTENT_POLICY_VIOLATION.
C11_ExhaustedIsPolicyViolation ==
    Exhausted => last.status = 400 /\ last.code = "CONTENT_POLICY_VIOLATION"

C12_State ==
    last.stage = "rate_limit" =>
        /\ last.status = 429
        /\ last.code = "RATE_LIMIT_EXCEEDED"
        /\ last.calls = <<>>
        /\ last.auxCalls = 0

C12_Step == last'.stage = "rate_limit" => inflight' = inflight

AuthErrorTexts == {testAuthError(RespAuth.authError), RespToken.tokenError}

\* C13: a request all of whose upstream attempts failed in the credentials
\* client is answered with status 503, code AUTHENTICATION_ERROR and the
\* message 'Service temporarily unavailable. Please try again later.'.
C13_AuthFailureIs503 ==
    (/\ last.stage = "generation"
     /\ Len(last.calls) > 0
     /\ \A n \in DOMAIN last.calls : last.calls[n].error \in AuthErrorTexts)
    => /\ last.status = 503
       /\ last.code = "AUTHENTICATION_ERROR"
       /\ last.message = "Service temporarily unavailable. Please try again later."

\* C14: a request whose prompt has no detected issue and whose first upstream
\* call succeeds makes exactly one upstream call and no auxiliary call; the
\* result has the method 'original' and promptUsed equal to the original
\* prompt, and the response has wasOptimized = false.
C14_PlainPromptSingleCall ==
    (/\ last.stage = "success"
     /\ detectProblematicContentFast(last.prompt.text) = <<>>
     /\ last.calls[1].ok)
    => /\ Len(last.calls) = 1
       /\ last.auxCalls = 0
       /\ last.result.transformationMethod = "original"
       /\ last.result.promptUsed = last.prompt.text
       /\ ~last.result.promptWasTransformed
       /\ last.body.wasOptimized = FALSE

\* 'a red bicycle in a park' succeeded on its first upstream call
C14_Witness ==
    /\ last.stage = "success"
    /\ last.prompt.text = BicyclePrompt
    /\ detectProblematicContentFast(BicyclePrompt) = <<>>
    /\ last.calls[1].ok

\* C15: for a prompt on which the detector finds nothing,
\* smartPromptTransformation returns the original prompt as transformed text,
\* with a method that marks it as untransformed, without calling the auxiliary
\* text model.
C15_TransformerIdentity ==
    \A k \in DOMAIN inflight :
        (inflight[k].i = 2 /\ detectProblematicContentFast(inflight[k].prompt) = <<>>)
        => /\ inflight[k].promptResult.transformed = inflight[k].prompt
           /\ inflight[k].promptResult.method \in {"original", "no_issues_detected"}
           /\ inflight[k].auxCalls = 0

\* the step completes a pending request of the identity whose request the
\* previous step rejected for concurrency
CompletesAfterConcurrencyRejection ==
    /\ last.stage = "concurrency"
    /\ Len(inflight') < Len(inflight)
    /\ last'.userId = last.userId

\* C17: when a request of an identity was rejected for concurrency and one of
\* the identity's pending requests then completes, a next request of the
\* identity is accepted, as long as hourly quota remains.
C17_NoLockout ==
    [][CompletesAfterConcurrencyRejection =>
          LET u == last.userId
              next == validateRateLimit(rateLimits', concurrentRequests', u, now')
          IN  ~QuotaReached(MapGet(rateLimits', u, [requests |-> 0]).requests)
                  => next.accepted]_vars

\* the position of a call in the order of the strategy and model loops
CallIndex(strategy, model) == (strategy - 1) * Len(imageModels) + model

\* the call follows the log: it is the next model of the strategy of the
\* latest call, or the first model of the next strategy
Follows(log, strategy, model) ==
    IF log = <<>> THEN strategy = 1 /\ model = 1
    ELSE LET c == log[Len(log)]
         IN  \/ strategy = c.strategy /\ model = c.model + 1
             \/ strategy = c.strategy + 1 /\ model = 1

\* C18: after an upstream call that failed with an error that is not a
\* recognised policy rejection, the next call is that of the next model of
\* the same strategy with the same prompt variant; the next strategy follows
\* only when the failed call was on the last model.
C18_NextModelOnOtherErrors ==
    /\ \A log \in CallLogs : \A n \in 1..(Len(log) - 1) :
          (~log[n].ok /\ ~PolicySignal(log[n].error)) =>
              IF log[n].model < Len(imageModels)
              THEN /\ log[n + 1].strategy = log[n].strategy
                   /\ log[n + 1].model = log[n].model + 1
                   /\ log[n + 1].prompt = log[n].prompt
                   /\ log[n + 1].method = log[n].method
              ELSE /\ log[n + 1].strategy = log[n].strategy + 1
                   /\ log[n + 1].model = 1
    /\ \A k \in DOMAIN inflight :
          LET log == inflight[k].calls
              c == log[Len(log)]
          IN  (Len(log) > 0 /\ ~c.ok /\ ~PolicySignal(c.error)) =>
                  IF c.model < Len(imageModels)
                  THEN /\ inflight[k].i = c.strategy
                       /\ inflight[k].j = c.model + 1
                       /\ inflight[k].promptResult.transformed = c.prompt
                  ELSE /\ inflight[k].i = c.strategy + 1
                       /\ inflight[k].j = 1

\* a request went through every model of every strategy, its first call
\* failing in the network and a later one in the credentials client
C18_Witness ==
    /\ Len(last.calls) = NumStrategies * Len(imageModels)
    /\ last.calls[1].error = RespNetwork.fetchError
    /\ last.calls[2].error \in AuthErrorTexts
    /\ \A n \in DOMAIN last.calls : ~PolicySignal(last.calls[n].error)

\* C19: the calls of a request are made one after the other in the order of
\* the strategies (original, smart transformation, ultra-abstract) and, within
\* a strategy, of the models: each call follows the call before it, every call
\* before the latest one has failed, and a pending request waits for exactly
\* one call, the one that follows its log.
C19_SequentialOrder ==
    /\ \A log \in CallLogs : \A n \in DOMAIN log :
          /\ log[n].strategy \in 1..NumStrategies
          /\ log[n].model \in DOMAIN imageModels
          /\ log[n].method \in MethodsOfStrategy[log[n].strategy]
          /\ Follows(SubSeq(log, 1, n - 1), log[n].strategy, log[n].model)
          /\ n < Len(log) => ~log[n].ok
          /\ \A m \in 1..(n - 1) :
                CallIndex(log[m].strategy, log[m].model) < CallIndex(log[n].strategy, log[n].model)
    /\ \A k \in DOMAIN inflight :
          /\ Follows(inflight[k].calls, inflight[k].i, inflight[k].j)
          /\ inflight[k].promptResult.method \in MethodsOfStrategy[inflight[k].i]
          /\ \A n \in DOMAIN inflight[k].calls : ~inflight[k].calls[n].ok

\* a request was answered after calls of all three strategies, some strategy
\* having been left at its first model and some after its last
C19_Witness ==
    /\ last.stage \in {"success", "generation"}
    /\ {last.calls[n].strategy : n \in DOMAIN last.calls} = 1..NumStrategies
    /\ Len(last.calls) > NumStrategies
    /\ Len(last.calls) < NumStrategies * Len(imageModels)

\* C20: a request that succeeded ended at its first successful upstream call:
\* the call is the last of its log, and modelUsed, promptUsed and
\* transformationMethod of the result are the model, prompt text and method of
\* that call, originalPrompt being the prompt of the request.
C20_StopsAtFirstSuccess ==
    /\ last.stage = "success" =>
          LET c == last.calls[Len(last.calls)]
          IN  /\ c.ok
              /\ \A n \in 1..(Len(last.calls) - 1) : ~last.calls[n].ok
              /\ last.result.modelUsed = imageModels[c.model]
              /\ last.result.promptUsed = c.prompt
              /\ last.result.transformationMethod = c.method
              /\ last.result.originalPrompt = last.prompt.text
              /\ last.result.base64 # ""
    /\ \A k \in DOMAIN inflight : \A n \in DOMAIN inflight[k].calls :
          ~inflight[k].calls[n].ok
    /\ \A n \in DOMAIN last.calls : last.calls[n].ok => last.stage = "success"

\* a request succeeded with a transformed prompt after earlier calls failed
C20_Witness ==
    /\ last.stage = "success"
    /\ Len(last.calls) > 1
    /\ last.result.promptUsed # last.result.originalPrompt
    /\ last.result.modelUsed # imageModels[1]

\* C16: ruleBasedTransformation applied to the transformed text of a previous
\* ruleBasedTransformation returns that text unchanged.
C16_RuleBasedIdempotent ==
    draft.passes >= 2 => draft.text = draft.previous

\* C21: no request makes more than (number of strategies x number of models)
\* = 9 upstream calls, and, every upstream call being answered, a request in
\* generation ends in success or with every strategy exhausted.
C21_TerminatesWithinNine ==
    /\ [](/\ NumStrategies * Len(imageModels) = 9
          /\ \A log \in CallLogs : Len(log) <= NumStrategies * Len(imageModels))
    /\ (inflight # <<>>) ~> (inflight = <<>> /\ (last.stage = "success" \/ Exhausted))

\* a request ended exhausted after nine upstream calls
C21_Witness ==
    /\ Exhausted
    /\ Len(last.calls) = 9
    /\ inflight = <<>>

\* the errors generateWithModel throws for an OK answer without image payload
NoPayloadErrors ==
    {generateWithModel("", imageModels[1], resp).error :
        resp \in {RespEmpty, RespNoBytes, RespNoPredictions}}

\* C22: after an upstream call that was answered with an OK status and no
\* image payload, the remaining models of the strategy are skipped: the next
\* call, if any, is that of the next strategy on the first model, and a
\* pending request stands at that position.
C22_NoPayloadIsPolicy ==
    /\ \A log \in CallLogs : \A n \in 1..(Len(log) - 1) :
          log[n].error \in NoPayloadErrors =>
              /\ log[n + 1].strategy = log[n].strategy + 1
              /\ log[n + 1].model = 1
    /\ \A k \in DOMAIN inflight :
          LET log == inflight[k].calls
          IN  (Len(log) > 0 /\ log[Len(log)].error \in NoPayloadErrors) =>
                  /\ inflight[k].i = log[Len(log)].strategy + 1
                  /\ inflight[k].j = 1

\* C23: within one request no prompt text is sent to the same model twice.
C23_NoRepeatedCall ==
    \A log \in CallLogs : \A m, n \in DOMAIN log :
        (m < n /\ log[m].model = log[n].model) => log[m].prompt # log[n].prompt

\* the results of the rule-based transformation of a prompt, in either
\* revision of PromptGuard
RuleBasedResults(prompt) ==
    LET issues == detectProblematicContentFast(prompt)
    IN  {ruleBasedTransformation(prompt, issues)}
            \cup {conservativeRuleBasedTransformation(prompt, issues, sh) : sh \in Shuffles}

\* C24: the second strategy always has a variant, and when the text model was
\* asked and its candidate was not used (it threw, or gave no candidate), the
\* variant is the rule-based rewrite of the original prompt and the method is
\* that of the rule-based step; the AI method goes with a variant that is the
\* candidate of a text-model call.
C24_FallbackIsRuleBased ==
    \A k \in DOMAIN inflight :
        LET r == inflight[k]
            pr == r.promptResult
        IN  r.i = 2 =>
                /\ pr.original = r.prompt
                /\ pr.method \in {"ai_safety_transformation", "ai_transformation"}
                       => r.auxCalls = 1
                /\ (r.auxCalls = 1
                       /\ pr.method \notin {"ai_safety_transformation", "ai_transformation"})
                       => \E res \in RuleBasedResults(r.prompt) :
                              /\ pr.transformed = res.transformed
                              /\ pr.method = res.method

C25_State ==
    \A u \in DOMAIN acceptedAt :
        /\ u \in DOMAIN rateLimits
        /\ now - rateLimits[u].windowStart <= RATE_LIMIT_WINDOW
               => rateLimits[u].requests = Len(AcceptedSince(u, rateLimits[u].windowStart))

C25_Step ==
    Len(inflight') > Len(inflight) =>
        LET r == inflight'[Len(inflight')]
            u == r.userId
        IN  /\ Len(inflight') = Len(inflight) + 1
            /\ rateLimits'[u].requests = MapGet(rateLimits, u, [requests |-> 0]).requests + 1
            /\ concurrentRequests'[u] = MapGet(concurrentRequests, u, 0) + 1
            /\ MapGet(concurrentRequests, u, 0) < MAX_CONCURRENT_GENERATIONS
            /\ \A v \in DOMAIN rateLimits \ {u} : rateLimits'[v] = rateLimits[v]
            /\ \A v \in DOMAIN concurrentRequests \ {u} :
                   concurrentRequests'[v] = concurrentRequests[v]

\* C25: validateRateLimit checks and increments in one step: a step accepts
\* one request, against the counts stored when the step began, and stores
\* both counts raised by one; no acceptance is lost, so the hourly count of an
\* identity equals the number of its accepted requests, however the arrivals
\* and completions of its requests interleave.
C25_AtomicCheckAndIncrement == [](C25_State) /\ [][C25_Step]_vars

\* three requests of one identity were accepted one after the other and are
\* pending together
C25_Witness ==
    \E u \in DOMAIN rateLimits :
        /\ Cardinality(Pending(u)) = MAX_CONCURRENT_GENERATIONS
        /\ rateLimits[u].requests >= MAX_CONCURRENT_GENERATIONS
        /\ concurrentRequests[u] = MAX_CONCURRENT_GENERATIONS

\* C26: a request whose prompt validateUserInput rejected is answered with the
\* error code VALIDATION_ERROR and a 4xx status.
C26_InputRejectionIsValidationError ==
    last.stage = "input" =>
        /\ last.code = "VALIDATION_ERROR"
        /\ last.status >= 400 /\ last.status <= 499

\* the hourly count stored for identity u, 0 when none is stored
RequestCount(rl, u) == MapGet(rl, u, [requests |-> 0]).requests

C27_Step ==
    IF arrivals' = arrivals
    THEN rateLimits' = rateLimits
    ELSE IF Len(inflight') > Len(inflight)
    THEN LET u == inflight'[Len(inflight')].userId
         IN  RequestCount(rateLimits', u) = RequestCount(rateLimits, u) + 1
    ELSE LET u == last'.userId
         IN  IF last'.stage \in {"rate_limit", "concurrency"}
             THEN /\ ~last'.accepted
                  /\ RequestCount(rateLimits', u) = RequestCount(rateLimits, u)
                  /\ MapGet(concurrentRequests', u, 0) <= MapGet(concurrentRequests, u, 0)
             ELSE /\ last'.stage \in {"input", "options", "generation"}
                  /\ last'.accepted
                  /\ RequestCount(rateLimits', u) = RequestCount(rateLimits, u) + 1

C28_OptimizationReported ==
    last.stage = "success" =>
        /\ last.body.wasOptimized <=> (last.body.used # last.body.original)
        /\ \/ last.body.optimizationMethod = last.result.transformationMethod
           \/ /\ last.body.used = last.body.original
              /\ last.body.optimizationMethod = "none"

C29_State ==
    \A u \in DOMAIN concurrentRequests :
        concurrentRequests[u] \in 0..MAX_CONCURRENT_GENERATIONS

C29_Step ==
    \A u \in DOMAIN concurrentRequests' :
        LET before == MapGet(concurrentRequests, u, 0)
            after == concurrentRequests'[u]
        IN  /\ after \in {before - 1, before, before + 1}
            /\ before = 0 => after >= 0
            /\ before = MAX_CONCURRENT_GENERATIONS => after <= before

\* C29: the stored concurrent count of every identity is between 0 and
\* MAX_CONCURRENT_GENERATIONS in every reachable state, and no step takes it
\* below 0 or above the maximum: a decrement at 0 leaves 0, a check at the
\* maximum does not raise it.
C29_ConcurrentCountInRange == [](C29_State) /\ [][C29_Step]_vars

\* the finally block decremented for a request of an identity whose count was
\* 0, while another identity's count stood at the maximum
C29_Witness ==
    /\ last.stage = "missing_prompt"
    /\ last.decrements = 1
    /\ MapGet(concurrentRequests, last.userId, 0) = 0
    /\ \E u \in DOMAIN concurrentRequests :
          concurrentRequests[u] = MAX_CONCURRENT_GENERATIONS

AbstractPrefix == "abstract artistic composition inspired by the concept of: "
AbstractSuffix == ", digital art style"

\* C30: the ultra-abstract variant of a prompt is AbstractPrefix, a body of at
\* most 50 characters and AbstractSuffix, and holds none of the human-referring
\* words of the replacement as a whole word.
C30_AbstractHasNoHumanTerms ==
    draft.passes = 1 =>
        LET text == draft.text
            bodyLength == Len(text) - Len(AbstractPrefix) - Len(AbstractSuffix)
        IN  /\ bodyLength >= 0 /\ bodyLength <= AbstractLength
            /\ SubSeq(text, 1, Len(AbstractPrefix)) = AbstractPrefix
            /\ SubSeq(text, Len(text) - Len(AbstractSuffix) + 1, Len(text)) = AbstractSuffix
            /\ ~HasWord(text, HumanTerms)

====
